---- MODULE Spec2Model ----
(***************************************************************************)
(* Branch-aware persistence of timelines (DecisionTree).                   *)
(*                                                                         *)
(* The timelines route handlers (create, read, update) are modelled as     *)
(* asynchronous requests: every `await` on the primary pool, on the        *)
(* control plane or on a branch connection is one step, so that requests   *)
(* interleave exactly where the handlers can be suspended.                 *)
(***************************************************************************)
EXTENDS Integers, Sequences, FiniteSets, TLC

\* ------------------------------------------------------------------ bounds
MaxRecords == 1
MaxTrees == 2
MaxBranches == 1
MaxReq == 2
MaxNodeIds == 2
MaxTitles == 2
MaxWidth == 2
MaxClients == 2
MaxTicks == 3
MaxCalls == 6
MaxHistoryIds == 3
MaxDecisions == 2

\* every value carries its type, as a pair <<type, n>>
NULL == <<"null", 0>>
UNDEFINED == <<"undefined", 0>>

RecordIds == {<<"id", i>> : i \in 1..MaxRecords}
Trees == {<<"tree", i>> : i \in 1..MaxTrees}
BranchIds == {<<"branch", i>> : i \in 1..MaxBranches}
Slots == 1..MaxReq

\* ------------------------------------------------------------- data model
\* details.endpoints[0].host of a branch: one endpoint per branch
HostOf(b) == <<"host", b[2]>>
Hosts == {HostOf(b) : b \in BranchIds}
BranchOfHost(h) == <<"branch", h[2]>>

\* JSON.stringify(treeData): the serialized document kept in the JSON column
JSONstringify(t) == <<"json", t[2]>>
JSONparse(s) == <<"tree", s[2]>>
IsString(v) == v[1] = "json"
JSONDocs == {JSONstringify(t) : t \in Trees}

\* a JS value is truthy unless it is null, undefined, "", 0, false
Truthy(v) == v \notin {NULL, UNDEFINED}

Sessions == {<<"session", 1>>}
Names == {<<"name", 1>>}
NodeIds == {<<"node", 1>>}

\* where a new timeline comes from: a top-level save, or a fork of a timeline
\* at a node
Forks == {[parentTimelineId |-> NULL, branchedFromNode |-> NULL],
          [parentTimelineId |-> <<"id", 1>>, branchedFromNode |-> <<"node", 1>>]}

\* a row of the timelines table
Row == [session_id : Sessions,
        name : Names,
        parent_timeline_id : RecordIds \cup {NULL},
        branch_id : BranchIds \cup {NULL},
        branch_host : Hosts \cup {NULL},
        tree_data : JSONDocs,
        branched_from_node : NodeIds \cup {NULL}]

\* a table holds the rows of the ids in its domain
Table == UNION {[D -> Row] : D \in SUBSET RecordIds}
EmptyTable == [r \in {} |-> NULL]
Has(table, id) == id \in DOMAIN table

\* what the driver hands back for the JSON column: the document as a string,
\* or the value already parsed (depends on the pool's configuration)
DriverValues(doc) == {doc, JSONparse(doc)}

\* --------------------------------------------------- TiDB Cloud API client
\* the statuses the control plane answers with; 0 stands for a fetch that
\* rejects (no response)
Statuses == {200, 401, 404, 500}
Ok(status) == status \in 200..299

\* strings of the WWW-Authenticate header; <<"str", 0>> is the empty string
EmptyString == <<"str", 0>>
Realm == <<"str", 1>>
Nonce == <<"str", 2>>
Qop == <<"str", 3>>
Auth == <<"str", 4>>

\* the configured keys, the nonce count "00000001", the request method and
\* the request path of a branch, the client nonces randomBytes can yield
PublicKey == <<"str", 5>>
PrivateKey == <<"str", 6>>
Nc == <<"str", 7>>
DeleteMethod == <<"str", 8>>
PathOf(b) == <<"path", b[2]>>
Paths == {PathOf(b) : b \in BranchIds}
CNonces == {<<"hex", 1>>, <<"hex", 2>>}

\* crypto.createHash("md5").update(`a:b:...`).digest("hex"): the digest is
\* known by the parts that were joined with ":"
md5(parts) == <<"md5", parts>>

\* WWW-Authenticate of a 401 response: no header at all, or the tokens it
\* carries (NULL: the token is not in the header)
Challenges ==
    {[header |-> FALSE, realm |-> NULL, nonce |-> NULL, qop |-> NULL]}
    \cup {[header |-> TRUE, realm |-> x[1], nonce |-> x[2], qop |-> x[3]] :
          x \in {<<Realm, Nonce, Qop>>, <<Realm, Nonce, NULL>>,
                 <<NULL, Nonce, Qop>>, <<Realm, NULL, Qop>>,
                 <<NULL, NULL, NULL>>}}

\* wwwAuth.match(/token="([^"]+)"/)?.[1] || fallback
Match(token, fallback) == IF token = NULL THEN fallback ELSE token

\* a response is known by the request that produced it and its status
NoResponse == [seq |-> 0, status |-> 0]
NoAuthorization ==
    [username |-> NULL, realm |-> NULL, nonce |-> NULL, uri |-> NULL,
     qop |-> NULL, nc |-> NULL, cnonce |-> NULL, response |-> NULL]

\* one call seen from outside: the request (method, path), and what the
\* network and the random source do to it: the status of the first response,
\* its challenge, the client nonce drawn, the status of the response to the
\* authenticated request
Networks ==
    {[method |-> DeleteMethod, path |-> u, first |-> x[1], challenge |-> x[2],
      cnonce |-> x[3], second |-> x[4]] :
        u \in Paths,
        x \in {<<f, CHOOSE c \in Challenges : ~c.header,
                 CHOOSE n \in CNonces : TRUE, 0>> :
                    f \in (Statuses \cup {0}) \ {401}}
              \cup {<<401, c, CHOOSE n \in CNonces : TRUE, 0>> :
                       c \in {c \in Challenges : ~c.header}}
              \cup {<<401, c[1], c[2], c[3]>> :
                       c \in {c \in Challenges : c.header} \X CNonces
                             \X (Statuses \cup {0})}}

\* variant: the keys are only missed when both are absent
MissingKeys_both(publicKey, privateKey) == ~publicKey /\ ~privateKey

\* if (!publicKey || !privateKey) throw
MissingKeys(publicKey, privateKey) == ~publicKey \/ ~privateKey

\* variant: every failure status is taken for a challenge
IsChallenge_any_failure(status) == ~Ok(status)

\* if (initialResponse.status !== 401) return initialResponse
IsChallenge(status) == status = 401

\* variant: the response of the digest scheme without qop
Digest_no_qop(ha1, nonce, nc, cnonce, qop, ha2) == md5(<<ha1, nonce, ha2>>)

\* response = MD5(HA1:nonce:nc:cnonce:qop:HA2)
Digest(ha1, nonce, nc, cnonce, qop, ha2) ==
    md5(<<ha1, nonce, nc, cnonce, qop, ha2>>)

\* the Authorization header built from the challenge
Authorization(net) ==
    LET realm == Match(net.challenge.realm, EmptyString)
        nonce == Match(net.challenge.nonce, EmptyString)
        qop == Match(net.challenge.qop, Auth)
        ha1 == md5(<<PublicKey, realm, PrivateKey>>)
        uri == net.path
        ha2 == md5(<<net.method, uri>>) IN
    [username |-> PublicKey, realm |-> realm, nonce |-> nonce, uri |-> uri,
     qop |-> qop, nc |-> Nc, cnonce |-> net.cnonce,
     response |-> Digest(ha1, nonce, Nc, net.cnonce, qop, ha2)]

\* variant: a second challenge is answered by one more request
Reissue_again(net) ==
    [error |-> IF net.second = 0 THEN "network" ELSE "none",
     sent |-> IF net.second = 401 THEN 3 ELSE 2,
     response |-> IF net.second = 0 THEN NoResponse
                  ELSE [seq |-> IF net.second = 401 THEN 3 ELSE 2,
                        status |-> net.second],
     authorization |-> Authorization(net)]

\* return fetch(url, {..., Authorization: authHeader}): the second request
Reissue(net) ==
    [error |-> IF net.second = 0 THEN "network" ELSE "none", sent |-> 2,
     response |-> IF net.second = 0 THEN NoResponse
                  ELSE [seq |-> 2, status |-> net.second],
     authorization |-> Authorization(net)]

\* tidbCloudFetch(method, path, body): what the call throws or returns, the
\* number of requests it sent and the Authorization header of the second
tidbCloudFetch(publicKey, privateKey, net) ==
    IF MissingKeys(publicKey, privateKey)
    THEN [error |-> "config", sent |-> 0, response |-> NoResponse,
          authorization |-> NoAuthorization]
    ELSE IF net.first = 0
    THEN [error |-> "network", sent |-> 1, response |-> NoResponse,
          authorization |-> NoAuthorization]
    ELSE IF ~IsChallenge(net.first)
    THEN [error |-> "none", sent |-> 1,
          response |-> [seq |-> 1, status |-> net.first],
          authorization |-> NoAuthorization]
    ELSE IF ~net.challenge.header
    THEN [error |-> "challenge", sent |-> 1, response |-> NoResponse,
          authorization |-> NoAuthorization]
    ELSE Reissue(net)

\* one call of the client, as a handler of the branches route keeps it
NoCall ==
    [made |-> FALSE, net |-> CHOOSE n \in Networks : n.first = 0,
     result |-> [error |-> "none", sent |-> 0, response |-> NoResponse,
                 authorization |-> NoAuthorization]]
Calls ==
    {NoCall}
    \cup {[made |-> TRUE, net |-> n, result |-> tidbCloudFetch(pub, priv, n)] :
          n \in Networks, pub \in BOOLEAN, priv \in BOOLEAN}

\* ------------------------------------------------ tree editor (LifeTree)
\* LifeNodeData: id, the descriptive fields (title stands for title,
\* description, timeframe, sentiment, probability) and the optional children
\* array: hasChildren tells whether the property is there at all
LifeNodeIds == {<<"n", i>> : i \in 1..MaxNodeIds}
Titles == {<<"title", i>> : i \in 1..MaxTitles}
SeqsUpTo(S, n) == UNION {[1..k -> S] : k \in 0..n}
Node(id, title, hasChildren, children) ==
    [id |-> id, title |-> title, hasChildren |-> hasChildren, children |-> children]

\* trees of three levels: nodes without the children property at the bottom,
\* above them nodes without it or with an array of up to MaxWidth children
LifeLeaves == {Node(i, t, FALSE, << >>) : i \in LifeNodeIds, t \in Titles}
LifeSubtrees ==
    LifeLeaves \cup {Node(i, t, TRUE, c) : i \in LifeNodeIds, t \in Titles,
                                          c \in SeqsUpTo(LifeLeaves, MaxWidth)}
LifeTrees ==
    LifeLeaves \cup {Node(i, t, TRUE, c) : i \in LifeNodeIds, t \in Titles,
                                          c \in SeqsUpTo(LifeSubtrees, MaxWidth)}

\* the ids a node can be looked up by: those of the trees and one that no
\* tree carries
LookupIds == {<<"n", i>> : i \in 1..(MaxNodeIds + 1)}

\* generateResult.data.children || []
Alternatives ==
    SeqsUpTo({Node(i, CHOOSE t \in Titles : TRUE, FALSE, << >>) : i \in LifeNodeIds}, 1)

\* variant: a node without the children property is treated as one with an
\* empty array
HasChildren_or_empty(tree) == TRUE

\* if (tree.children)
HasChildren(tree) == tree.hasChildren

NotFound == [found |-> FALSE, node |-> NULL]

\* depth-first search, the first match in document order
RECURSIVE findNodeById(_, _)
findNodeById(tree, id) ==
    IF tree.id = id THEN [found |-> TRUE, node |-> tree]
    ELSE IF HasChildren(tree)
    THEN LET hits == {i \in DOMAIN tree.children :
                         findNodeById(tree.children[i], id).found} IN
         IF hits = {} THEN NotFound
         ELSE findNodeById(
                  tree.children[CHOOSE i \in hits : \A j \in hits : i <= j], id)
    ELSE NotFound

\* { ...tree, children: newChildren } at a node of that id, otherwise the
\* node with every child mapped, otherwise the node itself
RECURSIVE replaceSubtreeAtNode(_, _, _)
replaceSubtreeAtNode(tree, nodeId, newChildren) ==
    IF tree.id = nodeId
    THEN [tree EXCEPT !.hasChildren = TRUE, !.children = newChildren]
    ELSE IF HasChildren(tree)
    THEN [tree EXCEPT !.hasChildren = TRUE,
                      !.children = [i \in DOMAIN tree.children |->
                          replaceSubtreeAtNode(tree.children[i], nodeId, newChildren)]]
    ELSE tree

\* the editor: the tree on screen, the selected node id, the alternative
\* children and the tree built from them
EditorIdle ==
    [pc |-> "idle", tree |-> NULL, nodeId |-> NULL, newChildren |-> << >>,
     result |-> NULL]

\* ---------------------------------------------- rate limiter (rateLimit.ts)
RATE_LIMIT_DISABLED == TRUE

\* RATE_LIMIT_CONFIG of the generate route
windowMs == 60000
maxRequests == 5
RATE_LIMIT_CONFIG == [windowMs |-> windowMs, maxRequests |-> maxRequests]

\* Date.now() advances in steps of half a window
TickMs == 30000
Times == {k * TickMs : k \in 0..MaxTicks}

\* getClientIP(request) and the key `generate:${clientIP}`
Clients == {<<"ip", i>> : i \in 1..MaxClients}
Identifier(clientIP) == <<"generate", clientIP[2]>>
Identifiers == {Identifier(c) : c \in Clients}

\* rateLimitStore: a Map from identifier to {count, resetTime}
NoEntry == [present |-> FALSE, count |-> 0, resetTime |-> 0]
Entry(count, resetTime) == [present |-> TRUE, count |-> count, resetTime |-> resetTime]

\* the occasional sweep (Math.random() < 0.01) deletes the expired entries
Sweep(store, now) ==
    [k \in DOMAIN store |->
        IF store[k].present /\ store[k].resetTime < now THEN NoEntry ELSE store[k]]

\* rateLimit(identifier, config): the answer and the store it leaves
rateLimit(store, identifier, config, now, sweep) ==
    IF RATE_LIMIT_DISABLED
    THEN [allowed |-> TRUE, remaining |-> 999, resetIn |-> 0, store |-> store]
    ELSE
    LET entry == store[identifier]
        swept == IF sweep THEN Sweep(store, now) ELSE store IN
    IF ~entry.present \/ entry.resetTime < now
    THEN [allowed |-> TRUE, remaining |-> config.maxRequests - 1,
          resetIn |-> config.windowMs,
          store |-> [swept EXCEPT ![identifier] = Entry(1, now + config.windowMs)]]
    ELSE IF entry.count >= config.maxRequests
    THEN [allowed |-> FALSE, remaining |-> 0, resetIn |-> entry.resetTime - now,
          store |-> swept]
    ELSE [allowed |-> TRUE, remaining |-> config.maxRequests - (entry.count + 1),
          resetIn |-> entry.resetTime - now,
          store |-> [swept EXCEPT ![identifier].count = @ + 1]]

\* the generate route as the limiter sees it: the clock, the store, per client
\* and time the number of requests that reached the AI call, and the last
\* request with its response
LimiterIdle ==
    [now |-> 0,
     store |-> [k \in Identifiers |-> NoEntry],
     called |-> [c \in Clients |-> [t \in Times |-> 0]],
     client |-> NULL, status |-> 0, ai |-> FALSE]

\* ------------------------------------------- decision history (history route)
HistoryIds == {<<"hid", i>> : i \in 1..MaxHistoryIds}
Decisions == {<<"decision", i>> : i \in 1..MaxDecisions}

\* a save: the handler's position, its inputs, the row the SELECT found and
\* the response
NoSave ==
    [pc |-> "idle", session |-> NULL, decision |-> NULL, treeData |-> NULL,
     existing |-> NULL, conn |-> FALSE, status |-> 0, id |-> NULL,
     updated |-> FALSE]

HistoryRow(session, decision, treeData) ==
    [session_id |-> session, decision |-> decision,
     tree_data |-> JSONstringify(treeData)]

\* SELECT id FROM decision_history WHERE session_id = ? AND decision = ?
Existing(table, session, decision) ==
    {i \in DOMAIN table : /\ table[i].session_id = session
                          /\ table[i].decision = decision}

\* decision_history, a table keyed by id, and the saves in flight
HistoryIdle == [table |-> EmptyTable, saves |-> [q \in Slots |-> NoSave]]

VARIABLES
    primary,    \* timelines table of the main cluster
    branch,     \* timelines table of each branch
    cp,         \* control plane: state of each branch
    env,        \* process.env: which settings are configured
    req,        \* the requests in flight, one per slot
    last,       \* per record: tag and payload of the last completed update
    editor,     \* the tree editor of the page
    limiter,    \* the generate route and its rate limiter
    history     \* the decision_history table and the saves in flight

vars == <<primary, branch, cp, env, req, last, editor, limiter, history>>
storeVars == <<primary, branch, cp, env, req, last>>
otherVars == <<editor, limiter, history>>

Tags == {"main", "both", "main-only"}
NoUpdate == <<"none", 0>>
Update(tag, tree) == <<tag, tree[2]>>

\* a request: the handler's position, its inputs, its locals and, once
\* pc = "done", its response (status 0: no response yet)
NewRequest(kind, id, treeData) ==
    [pc |-> "idle", kind |-> kind, id |-> id, treeData |-> treeData,
     createBranch |-> FALSE, session |-> NULL, name |-> NULL,
     fork |-> [parentTimelineId |-> NULL, branchedFromNode |-> NULL],
     branchId |-> NULL, branchHost |-> NULL,
     row |-> NULL,          \* timelines[0] as selected from the main cluster
     conn |-> FALSE,        \* holds a connection of the primary pool
     status |-> 0, writtenTo |-> NULL, source |-> NULL, out |-> NULL,
     create |-> "none",     \* branch-creation call: none, throw, notok, ok
     details |-> "none",    \* branch-details call: none, throw, notok, ok
     prim |-> "none",       \* primary statement: none, found, missing, written,
                            \* failed (by the database), bind_error (by the driver)
     br |-> "none",         \* branch call: none, ok, connect_failed, query_failed,
                            \* query_hung
     call |-> NoCall,       \* branches route: what tidbCloudFetch did
     raced |-> FALSE,       \* a creation or update of the same record overlapped
     overwritten |-> FALSE, \* a later primary write replaced this one
     peer |-> NoUpdate,     \* update: the update of the same record that
                            \* last returned while this one was in flight
     after |-> NoUpdate]    \* read: the completed update it follows

\* a slot with no request
Idle == NewRequest("none", NULL, NULL)

TypeOK ==
    /\ primary \in Table
    /\ branch \in [BranchIds -> Table]
    /\ cp \in [BranchIds -> {"absent", "active", "deleted"}]
    /\ env \in [clusterId : BOOLEAN, publicKey : BOOLEAN, privateKey : BOOLEAN]
    /\ DOMAIN req = Slots
    /\ \A q \in Slots :
         /\ req[q].pc \in {"idle", "put_update", "put_branch", "get_branch",
                           "post_insert", "post_branch", "hung", "done"}
         /\ req[q].status \in {0, 400} \cup Statuses
         /\ req[q].br \in {"none", "ok", "connect_failed", "query_failed",
                           "query_hung"}
         /\ req[q].call \in Calls
         /\ req[q].peer \in {NoUpdate} \cup {Update(t, p) : t \in Tags, p \in Trees}
    /\ last \in [RecordIds -> {NoUpdate} \cup {Update(t, p) : t \in Tags, p \in Trees}]

Init ==
    /\ primary = EmptyTable
    /\ branch = [b \in BranchIds |-> EmptyTable]
    /\ cp = [b \in BranchIds |-> "absent"]
    /\ env \in [clusterId : BOOLEAN, publicKey : BOOLEAN, privateKey : BOOLEAN]
    /\ req = [q \in Slots |-> Idle]
    /\ last = [r \in RecordIds |-> NoUpdate]
    /\ editor = EditorIdle
    /\ limiter = LimiterIdle
    /\ history = HistoryIdle

\* A response is delivered (Retire) before any handler takes its next step, and
\* a new request takes the lowest free slot: slots are interchangeable
Delivered == \A q \in Slots : req[q].pc # "done"
Free(q) ==
    /\ Delivered
    /\ req[q].pc = "idle"
    /\ \A p \in Slots : p < q => req[p].pc # "idle"
At(q, pc) == Delivered /\ req[q].pc = pc

\* the updates of record id that are between their SELECT and their response
Updating(id) ==
    {p \in Slots : req[p].kind = "PUT" /\ req[p].id = id
                   /\ req[p].pc \in {"put_update", "put_branch", "hung"}}

\* the creations of record id that are between their INSERT and their response
Creating(id) ==
    {p \in Slots : req[p].kind = "POST" /\ req[p].id = id
                   /\ req[p].pc \in {"post_insert", "post_branch", "hung"}}

\* ------------------------------------------------------------ SQL statements
\* variant: the UPDATE matches no row
SqlUpdate_no_match(table, id, doc) == table

\* variant: the UPDATE also clears the branch reference of the row
SqlUpdate_clear_branch(table, id, doc) ==
    IF Has(table, id)
    THEN [table EXCEPT ![id].tree_data = doc, ![id].branch_id = NULL,
                       ![id].branch_host = NULL]
    ELSE table

\* UPDATE timelines SET tree_data = ? WHERE id = ?
SqlUpdate(table, id, doc) ==
    IF Has(table, id) THEN [table EXCEPT ![id].tree_data = doc] ELSE table

\* INSERT INTO timelines (...) VALUES (...)   (fails on a duplicate key)
SqlInsert(table, id, row) == (id :> row) @@ table

\* INSERT ... ON DUPLICATE KEY UPDATE tree_data = VALUES(tree_data)
SqlUpsert(table, id, row) ==
    IF Has(table, id) THEN [table EXCEPT ![id].tree_data = row.tree_data]
    ELSE (id :> row) @@ table

\* mysql.createConnection to a branch host, then one statement on it.  The
\* call can succeed only while the branch exists; even then the connection
\* may be refused (still initializing, auth, network) or the statement fail.
\* No timeout is passed: the driver gives up a connection attempt by itself
\* (connect_failed), but a statement sent to a branch that stops answering
\* never settles (query_hung)
BranchOutcomes(branchHost) ==
    {"connect_failed", "query_failed"}
        \cup (IF cp[BranchOfHost(branchHost)] = "active"
              THEN {"ok", "query_hung"} ELSE {})

\* NextResponse.json(body, {status}): the request is finished
Respond(q, r, status) ==
    req' = [req EXCEPT ![q] = [r EXCEPT !.pc = "done", !.status = status]]

Goto(q, r, pc) ==
    req' = [req EXCEPT ![q] = [r EXCEPT !.pc = pc]]

\* the awaited branch statement never settles: the handler stays suspended
Hang(q, r) == Goto(q, r, "hung")

\* the update r answers 200: the updates of the same record still in flight
\* have a peer that returned before them
Succeed(q, r) ==
    req' = [p \in Slots |->
              IF p = q THEN [r EXCEPT !.pc = "done", !.status = 200]
              ELSE IF p \in Updating(r.id)
                   THEN [req[p] EXCEPT !.peer = Update(r.writtenTo, r.treeData)]
              ELSE req[p]]

\* a successful update of record r.id has returned
Completed(r) ==
    last' = [last EXCEPT ![r.id] = IF r.raced THEN NoUpdate
                                   ELSE Update(r.writtenTo, r.treeData)]

\* ------------------------------------------------- PUT /api/timelines/[id]
\* variant: "both" is recorded as soon as the branch connection is open
PUT_writtenTo_early(outcome) ==
    IF outcome = "connect_failed" THEN "main-only" ELSE "both"

\* variant: the branch statement runs outside the try block
PUT_branch_status_uncaught(outcome) ==
    IF outcome = "query_failed" THEN 500 ELSE 200

\* the catch around the branch write: the tag and the status it leaves
PUT_writtenTo(outcome) == IF outcome = "ok" THEN "both" ELSE "main-only"
PUT_branch_status(outcome) == 200

\* variant: a rejected primary UPDATE is swallowed and the branch is tried
PUT_update_failed_swallowed(q, r) ==
    /\ IF Truthy(r.branchHost)
       THEN Goto(q, [r EXCEPT !.prim = "failed"], "put_branch")
       ELSE Respond(q, [r EXCEPT !.prim = "failed"], 200)
    /\ UNCHANGED <<primary, last>>

\* variant: the branch write does not wait for the outcome of the primary one
PUT_update_failed_branch_anyway(q, r) ==
    /\ IF Truthy(r.branchHost)
       THEN Goto(q, [r EXCEPT !.prim = "failed", !.conn = FALSE], "put_branch")
       ELSE Respond(q, [r EXCEPT !.prim = "failed"], 500)
    /\ UNCHANGED <<primary, last>>

\* a rejected primary UPDATE reaches the outer catch
PUT_update_failed(q, r) ==
    /\ Respond(q, [r EXCEPT !.prim = "failed"], 500)
    /\ UNCHANGED <<primary, last>>

\* variant: the branch is tried as soon as the record has a branch id
PUT_has_branch_by_id(r) == Truthy(r.row.branch_id)

\* if (branchHost) { ... }
PUT_has_branch(r) == Truthy(r.branchHost)

\* parse the request, validate treeData, take a connection from the pool,
\* SELECT branch_host FROM timelines WHERE id = ?
\* variant: a SELECT without a row goes on to the UPDATE, which matches
\* nothing, and the handler answers success
PUT_not_found_as_success(q, r) ==
    Respond(q, [r EXCEPT !.prim = "missing", !.writtenTo = "main"], 200)

\* timelines.length === 0: release the connection and answer 404
PUT_not_found(q, r) == Respond(q, [r EXCEPT !.prim = "missing"], 404)

PUT_select(q) ==
    /\ Free(q)
    /\ \E id \in RecordIds, treeData \in Trees \cup {NULL},
          poolOk \in BOOLEAN, ok \in BOOLEAN :
         LET r == NewRequest("PUT", id, treeData) IN
         IF ~Truthy(treeData) THEN Respond(q, r, 400)
         ELSE IF ~poolOk THEN Respond(q, r, 500)
         ELSE IF ~ok THEN Respond(q, [r EXCEPT !.conn = TRUE], 500)
         ELSE IF ~Has(primary, id) THEN PUT_not_found(q, r)
         ELSE req' = [p \in Slots |->
                 IF p = q
                 THEN [r EXCEPT !.pc = "put_update", !.conn = TRUE,
                                !.prim = "found", !.row = primary[id],
                                !.branchHost = primary[id].branch_host,
                                !.writtenTo = "main",
                                !.raced = (Updating(id) \cup Creating(id) # {})]
                 ELSE IF p \in Updating(id) THEN [req[p] EXCEPT !.raced = TRUE]
                 ELSE req[p]]
    /\ UNCHANGED <<primary, branch, cp, env, last>>
    /\ UNCHANGED otherVars

\* UPDATE timelines SET tree_data = ? WHERE id = ?   on the main cluster
PUT_update(q) ==
    /\ At(q, "put_update")
    /\ \E ok \in BOOLEAN :
         LET r == req[q] IN
         IF ~ok THEN PUT_update_failed(q, r)
         ELSE /\ primary' = SqlUpdate(primary, r.id, JSONstringify(r.treeData))
              /\ LET r2 == [r EXCEPT !.conn = FALSE, !.prim = "written"]
                     r3 == IF PUT_has_branch(r)
                           THEN [r2 EXCEPT !.pc = "put_branch"]
                           ELSE [r2 EXCEPT !.pc = "done", !.status = 200] IN
                 /\ req' = [p \in Slots |->
                       IF p = q THEN r3
                       ELSE IF p \in Updating(r.id)
                            THEN [req[p] EXCEPT
                                    !.overwritten = @ \/ req[p].prim = "written",
                                    !.peer = IF PUT_has_branch(r) THEN @
                                             ELSE Update(r2.writtenTo, r2.treeData)]
                       ELSE req[p]]
                 /\ IF PUT_has_branch(r) THEN UNCHANGED last ELSE Completed(r2)
    /\ UNCHANGED <<branch, cp, env>>
    /\ UNCHANGED otherVars

\* getBranchConnection(branchHost), then
\* UPDATE timelines SET tree_data = ? WHERE id = ?   on the branch
PUT_branch(q) ==
    /\ At(q, "put_branch")
    /\ \E outcome \in BranchOutcomes(req[q].branchHost) :
         LET b == BranchOfHost(req[q].branchHost)
             r == [req[q] EXCEPT !.br = outcome,
                                 !.writtenTo = PUT_writtenTo(outcome)] IN
         IF outcome = "query_hung"
         THEN /\ Hang(q, [req[q] EXCEPT !.br = outcome])
              /\ UNCHANGED <<branch, last>>
         ELSE
         /\ branch' = IF outcome = "ok"
                      THEN [branch EXCEPT ![b] =
                              SqlUpdate(branch[b], r.id, JSONstringify(r.treeData))]
                      ELSE branch
         /\ IF PUT_branch_status(outcome) = 200
            THEN Succeed(q, r) /\ Completed(r)
            ELSE Respond(q, r, PUT_branch_status(outcome)) /\ UNCHANGED last
    /\ UNCHANGED <<primary, cp, env>>
    /\ UNCHANGED otherVars

\* ------------------------------------------------- GET /api/timelines/[id]
\* the response of a successful read: the driver hands over the column
\* and treeData is parsed when it is a string
GET_treeData(treeData) ==
    IF IsString(treeData) THEN JSONparse(treeData) ELSE treeData

GET_respond(q, r, status) ==
    \E treeData \in DriverValues(r.treeData) :
        Respond(q, [r EXCEPT !.out = GET_treeData(treeData)], status)

\* variant: an absent row is answered as an empty success
GET_not_found_as_success(q, r) == Respond(q, [r EXCEPT !.prim = "missing"], 200)

\* if (timelines.length === 0) return 404, before the branch is looked at
GET_not_found(q, r) == Respond(q, [r EXCEPT !.prim = "missing"], 404)

\* variant: the branch rows are never used
GET_branch_hit_never(outcome, branchRows, id) == FALSE

\* variant: a failed branch read reaches the outer catch
GET_branch_status_uncaught(outcome) == IF outcome = "ok" THEN 200 ELSE 500

\* the branch answers and branchTimelines.length > 0
GET_branch_hit(outcome, branchRows, id) == outcome = "ok" /\ Has(branchRows, id)

\* the catch around the branch read falls back to the main cluster data
GET_branch_status(outcome) == 200

\* take a connection from the pool, SELECT * FROM timelines WHERE id = ?
GET_select(q) ==
    /\ Free(q)
    /\ \E id \in RecordIds, poolOk \in BOOLEAN, ok \in BOOLEAN :
         LET r == NewRequest("GET", id, NULL) IN
         IF ~poolOk THEN Respond(q, r, 500)
         ELSE IF ~ok THEN Respond(q, [r EXCEPT !.conn = TRUE], 500)
         ELSE IF ~Has(primary, id) THEN GET_not_found(q, r)
         ELSE   LET r2 == [r EXCEPT !.prim = "found", !.row = primary[id],
                                    !.branchHost = primary[id].branch_host,
                                    !.treeData = primary[id].tree_data,
                                    !.source = "main",
                                    !.raced = (Updating(id) \cup Creating(id) # {}),
                                    !.after = IF Updating(id) \cup Creating(id) = {}
                                              THEN last[id] ELSE NoUpdate] IN
                IF Truthy(r2.branchHost) THEN Goto(q, r2, "get_branch")
                ELSE GET_respond(q, r2, 200)
    /\ UNCHANGED <<primary, branch, cp, env, last>>
    /\ UNCHANGED otherVars

\* getBranchConnection(timeline.branch_host), then
\* SELECT tree_data FROM timelines WHERE id = ?   on the branch
GET_branch(q) ==
    /\ At(q, "get_branch")
    /\ \E outcome \in BranchOutcomes(req[q].branchHost) :
         LET branchRows == branch[BranchOfHost(req[q].branchHost)]
             quiet == Updating(req[q].id) = {} /\ last[req[q].id] = req[q].after
             r == [req[q] EXCEPT !.br = outcome,
                                 !.raced = req[q].raced \/ ~quiet,
                                 !.after = IF quiet THEN req[q].after ELSE NoUpdate] IN
         IF outcome = "query_hung" THEN Hang(q, r)
         ELSE IF GET_branch_hit(outcome, branchRows, r.id)
         THEN GET_respond(q, [r EXCEPT !.treeData = branchRows[r.id].tree_data,
                                       !.source = "branch"],
                          GET_branch_status(outcome))
         ELSE GET_respond(q, r, GET_branch_status(outcome))
    /\ UNCHANGED <<primary, branch, cp, env, last>>
    /\ UNCHANGED otherVars

\* ------------------------------------------------------ POST /api/timelines
\* variant: a requested branch is written to the row whatever came of it
POST_row_requested_branch(r) ==
    [session_id |-> r.session, name |-> r.name,
     parent_timeline_id |-> r.fork.parentTimelineId,
     branch_id |-> IF r.createBranch /\ r.branchHost # UNDEFINED
                   THEN CHOOSE b \in BranchIds : TRUE ELSE r.branchId,
     branch_host |-> r.branchHost,
     tree_data |-> JSONstringify(r.treeData),
     branched_from_node |-> r.fork.branchedFromNode]

\* the row bound to the INSERT statements
POST_row(r) ==
    [session_id |-> r.session, name |-> r.name,
     parent_timeline_id |-> r.fork.parentTimelineId,
     branch_id |-> r.branchId, branch_host |-> r.branchHost,
     tree_data |-> JSONstringify(r.treeData),
     branched_from_node |-> r.fork.branchedFromNode]

\* variant: branchId is read from the response before response.ok is tested
POST_provisioned_unchecked(r, create, details, host, b) ==
    [r EXCEPT !.create = create,
              !.branchId = IF create \in {"ok", "notok"} THEN b ELSE NULL,
              !.details = IF create = "ok" THEN details ELSE "none",
              !.branchHost = IF create = "ok" /\ details = "ok" THEN host ELSE NULL]

\* the locals branchId and branchHost after the try block that creates the
\* branch and asks for its details; b is the branch the control plane made
POST_provisioned(r, create, details, host, b) ==
    [r EXCEPT !.create = create,
              !.branchId = IF create = "ok" THEN b ELSE NULL,
              !.details = IF create = "ok" THEN details ELSE "none",
              !.branchHost = IF create = "ok" /\ details = "ok" THEN host ELSE NULL]

\* the bodies a client posts: complete ones, and ones that lack a field
Bodies ==
    [sessionId : Sessions, name : Names, treeData : Trees, fork : Forks,
     createBranch : BOOLEAN]
    \cup {[sessionId |-> x[1], name |-> x[2], treeData |-> x[3],
           fork |-> CHOOSE f \in Forks : TRUE, createBranch |-> FALSE] :
          x \in {<<NULL, CHOOSE n \in Names : TRUE, CHOOSE t \in Trees : TRUE>>,
                 <<CHOOSE u \in Sessions : TRUE, NULL, CHOOSE t \in Trees : TRUE>>,
                 <<CHOOSE u \in Sessions : TRUE, CHOOSE n \in Names : TRUE, NULL>>}}

\* what the two control-plane calls can yield: <<create, details, host>>
Provisionings(wanted, keys, b) ==
    IF ~wanted THEN {<<"none", "none", NULL>>}
    ELSE {<<"throw", "none", NULL>>}
         \cup (IF keys
               THEN {<<"notok", "none", NULL>>, <<"ok", "throw", NULL>>,
                     <<"ok", "notok", NULL>>, <<"ok", "ok", HostOf(b)>>,
                     <<"ok", "ok", UNDEFINED>>}
               ELSE {})

\* parse and validate the body, generateId(); when a branch is requested and
\* the cluster id is configured, tidbCloudFetch("POST", .../branches) and
\* tidbCloudFetch("GET", .../branches/{branchId}); then pool.getConnection()
POST_begin(q) ==
    /\ Free(q)
    /\ \E id \in RecordIds, body \in Bodies :
         LET r == [NewRequest("POST", id, body.treeData) EXCEPT
                     !.session = body.sessionId, !.name = body.name,
                     !.fork = body.fork, !.createBranch = body.createBranch] IN
         IF ~Truthy(body.sessionId) \/ ~Truthy(body.name) \/ ~Truthy(body.treeData)
         THEN /\ Respond(q, r, 400)
              /\ UNCHANGED <<cp, branch>>
         ELSE \E b \in BranchIds, poolOk \in BOOLEAN :
              \E pr \in Provisionings(body.createBranch /\ env.clusterId,
                               ~MissingKeys(env.publicKey, env.privateKey), b) :
                LET r2 == POST_provisioned(r, pr[1], pr[2], pr[3], b) IN
                /\ pr[1] # "ok" => b = CHOOSE x \in BranchIds : TRUE
                /\ IF poolOk THEN Goto(q, [r2 EXCEPT !.conn = TRUE], "post_insert")
                   ELSE Respond(q, r2, 500)
                /\ IF pr[1] = "ok"
                   THEN /\ cp[b] = "absent"
                        /\ cp' = [cp EXCEPT ![b] = "active"]
                        /\ branch' = [branch EXCEPT ![b] = primary]
                   ELSE UNCHANGED <<cp, branch>>
    /\ UNCHANGED <<primary, env, last>>
    /\ UNCHANGED otherVars

\* INSERT INTO timelines ... on the main cluster; execute() rejects a bind
\* parameter that is undefined, and the id is the primary key
POST_insert(q) ==
    /\ At(q, "post_insert")
    /\ \E ok \in BOOLEAN :
         LET r == req[q] IN
         /\ ok => r.branchHost # UNDEFINED /\ ~Has(primary, r.id)
         /\ IF r.branchHost = UNDEFINED
            THEN /\ Respond(q, [r EXCEPT !.prim = "bind_error"], 500)
                 /\ UNCHANGED primary
            ELSE IF ~ok THEN /\ Respond(q, [r EXCEPT !.prim = "failed"], 500)
                             /\ UNCHANGED primary
            ELSE /\ primary' = SqlInsert(primary, r.id, POST_row(r))
                 /\ LET r2 == [r EXCEPT !.conn = FALSE, !.prim = "written"] IN
                    IF Truthy(r.branchHost) THEN Goto(q, r2, "post_branch")
                    ELSE Respond(q, r2, 200)
    /\ UNCHANGED <<branch, cp, env, last>>
    /\ UNCHANGED otherVars

\* getBranchConnection(branchHost), then
\* INSERT ... ON DUPLICATE KEY UPDATE tree_data = VALUES(tree_data)  on the branch
POST_branch(q) ==
    /\ At(q, "post_branch")
    /\ \E outcome \in BranchOutcomes(req[q].branchHost) :
         LET b == BranchOfHost(req[q].branchHost)
             r == [req[q] EXCEPT !.br = outcome] IN
         /\ branch' = IF outcome = "ok"
                      THEN [branch EXCEPT ![b] = SqlUpsert(branch[b], r.id, POST_row(r))]
                      ELSE branch
         /\ IF outcome = "query_hung" THEN Hang(q, r) ELSE Respond(q, r, 200)
    /\ UNCHANGED <<primary, cp, env, last>>
    /\ UNCHANGED otherVars

\* ----------------------------------------------------- DELETE /api/branches
\* variant: the records that own the branch are deleted with it
DELETE_branch_cascade(q) ==
    /\ Free(q)
    /\ \E branchId \in BranchIds :
         LET r == [NewRequest("DELETE", NULL, NULL) EXCEPT !.branchId = branchId]
             keep == {id \in DOMAIN primary : primary[id].branch_id # branchId} IN
         /\ env.clusterId
         /\ cp[branchId] = "active"
         /\ cp' = [cp EXCEPT ![branchId] = "deleted"]
         /\ branch' = [branch EXCEPT ![branchId] = EmptyTable]
         /\ primary' = [id \in keep |-> primary[id]]
         /\ Respond(q, r, 200)
    /\ UNCHANGED <<env, last>>
    /\ UNCHANGED otherVars

\* parse the body, check the cluster id and the branch id,
\* tidbCloudFetch("DELETE", .../branches/{branchId}), answer with its status;
\* the control plane answers a success status only for a branch that exists,
\* and has then deleted it
DELETE_branch(q) ==
    /\ Free(q)
    /\ \E branchId \in BranchIds \cup {NULL}, net \in Networks :
         LET r == [NewRequest("DELETE", NULL, NULL) EXCEPT !.branchId = branchId]
             result == tidbCloudFetch(env.publicKey, env.privateKey, net)
             r2 == [r EXCEPT !.call = [made |-> TRUE, net |-> net,
                                       result |-> result]] IN
         IF ~env.clusterId
         THEN Respond(q, r, 500) /\ UNCHANGED <<cp, branch>>
         ELSE IF ~Truthy(branchId)
         THEN Respond(q, r, 400) /\ UNCHANGED <<cp, branch>>
         ELSE IF net.method # DeleteMethod \/ net.path # PathOf(branchId)
         THEN FALSE
         ELSE IF result.error # "none"
         THEN Respond(q, r2, 500) /\ UNCHANGED <<cp, branch>>
         ELSE IF ~Ok(result.response.status)
         THEN Respond(q, r2, result.response.status) /\ UNCHANGED <<cp, branch>>
         ELSE /\ cp[branchId] = "active"
              /\ cp' = [cp EXCEPT ![branchId] = "deleted"]
              /\ branch' = [branch EXCEPT ![branchId] = EmptyTable]
              /\ Respond(q, r2, 200)
    /\ UNCHANGED <<primary, env, last>>
    /\ UNCHANGED otherVars

\* the response has been delivered; the slot serves the next request
Retire(q) ==
    /\ req[q].pc = "done"
    /\ req' = [req EXCEPT ![q] = Idle]
    /\ UNCHANGED <<primary, branch, cp, env, last>>
    /\ UNCHANGED otherVars

Next ==
    \E q \in Slots :
        \/ PUT_select(q) \/ PUT_update(q) \/ PUT_branch(q)
        \/ GET_select(q) \/ GET_branch(q)
        \/ POST_begin(q) \/ POST_insert(q) \/ POST_branch(q)
        \/ DELETE_branch(q)
        \/ Retire(q)

Spec == Init /\ [][Next]_vars

\* The event loop resumes every handler whose awaited call has settled and
\* delivers every response, however many other requests arrive (strong
\* fairness: a step waits while another response is being delivered);
\* nothing obliges a client to send a request
Resumed(q) ==
    PUT_update(q) \/ PUT_branch(q) \/ GET_branch(q) \/ POST_insert(q)
        \/ POST_branch(q) \/ Retire(q)

FairSpec == Spec /\ \A q \in Slots : SF_vars(Resumed(q))

\* ====================================================================
\* Properties of the replicated record store
\* ====================================================================
Done(q) == req[q].pc = "done"
Failed(q) == req[q].br \in {"connect_failed", "query_failed"}
Selected(q) == req[q].prim \in {"found", "written", "failed"}
\* the branch store the request's record points at
BranchRows(q) == branch[BranchOfHost(req[q].branchHost)]

\* C1: a successful update reports exactly one of the tags main, both,
\* main-only: main when the stored branch endpoint is null and no branch
\* write was attempted, both when the branch write completed without error,
\* main-only when the branch connection or write was attempted and failed.
C1_WriteTag ==
    \A q \in Slots :
        Done(q) /\ req[q].kind = "PUT" /\ req[q].status = 200 =>
            /\ req[q].writtenTo \in Tags
            /\ req[q].row.branch_host = NULL => req[q].writtenTo = "main"
            /\ (req[q].writtenTo = "main") = (req[q].br = "none")
            /\ (req[q].writtenTo = "both") = (req[q].br = "ok")
            /\ (req[q].writtenTo = "main-only") = Failed(q)

C1_Witness ==
    \E q \in Slots :
        /\ Done(q) /\ req[q].kind = "PUT" /\ req[q].status = 200
        /\ req[q].br = "query_failed" /\ req[q].writtenTo = "main-only"

\* C2: a branch failure never fails an update: once the primary write of an
\* update has succeeded, the update returns success whatever the branch
\* failure (connection or query), with tag main-only, never an error.
C2_BranchFailureNotFatal ==
    \A q \in Slots :
        Done(q) /\ req[q].kind = "PUT" /\ req[q].prim = "written" =>
            /\ req[q].status = 200
            /\ Failed(q) => req[q].writtenTo = "main-only"

C2_Witness ==
    \E q \in Slots :
        /\ Done(q) /\ req[q].kind = "PUT" /\ req[q].prim = "written"
        /\ req[q].br = "query_failed" /\ req[q].status = 200

\* C3: after an update that returns success, whatever its tag, the primary
\* store holds the payload just written (unless a concurrent update of the
\* same record has written the primary store after it); a branch failure
\* after the primary write does not roll the primary payload back.
C3_PrimaryHoldsPayload ==
    \A q \in Slots :
        Done(q) /\ req[q].kind = "PUT" /\ req[q].status = 200
                /\ ~req[q].overwritten =>
            /\ Has(primary, req[q].id)
            /\ primary[req[q].id].tree_data = JSONstringify(req[q].treeData)

C3_Witness ==
    \E q \in Slots :
        /\ Done(q) /\ req[q].kind = "PUT" /\ req[q].status = 200
        /\ req[q].writtenTo = "main-only"
        /\ req[q].row.tree_data # JSONstringify(req[q].treeData)
        /\ primary[req[q].id].tree_data = JSONstringify(req[q].treeData)

\* C4: when the primary write of an update fails, the update answers with an
\* error, no branch connection or branch write is attempted, and neither
\* store changes.
C4_PrimaryFailureFatal ==
    [][\A q \in Slots :
          req[q].pc = "put_update" /\ req'[q].prim = "failed" =>
              /\ req'[q].pc = "done"
              /\ req'[q].status = 500
              /\ req'[q].br = "none"
              /\ branch' = branch
              /\ primary' = primary]_vars

C4_Witness ==
    \E q \in Slots :
        /\ Done(q) /\ req[q].kind = "PUT" /\ req[q].prim = "failed"
        /\ req[q].row.branch_host # NULL /\ req[q].status = 500
        /\ req[q].br = "none"

\* C5 (as stated): a read of a record with a known branch endpoint whose
\* branch connection and branch query both succeed returns the branch
\* store's payload with provenance branch.
C5_BranchReadWins ==
    \A q \in Slots :
        Done(q) /\ req[q].kind = "GET" /\ req[q].prim = "found"
                /\ req[q].br = "ok" /\ ~req[q].raced =>
            /\ req[q].status = 200
            /\ req[q].source = "branch"
            /\ Has(BranchRows(q), req[q].id)
            /\ req[q].out = JSONparse(BranchRows(q)[req[q].id].tree_data)

\* C5 (amended): such a read returns the branch store's payload with
\* provenance branch when the branch store holds a row for the record id;
\* when it holds none, the read returns the primary payload with provenance
\* main.
C5_BranchReadWinsIfRow ==
    \A q \in Slots :
        Done(q) /\ req[q].kind = "GET" /\ req[q].prim = "found"
                /\ req[q].br = "ok" =>
            /\ req[q].status = 200
            /\ IF Has(BranchRows(q), req[q].id)
               THEN /\ req[q].source = "branch"
                    /\ req[q].out = JSONparse(BranchRows(q)[req[q].id].tree_data)
               ELSE /\ req[q].source = "main"
                    /\ req[q].out = JSONparse(req[q].row.tree_data)

C5_Witness ==
    \E q \in Slots :
        /\ Done(q) /\ req[q].kind = "GET" /\ req[q].br = "ok"
        /\ req[q].source = "branch"
        /\ req[q].out # JSONparse(req[q].row.tree_data)

\* C6: when the branch connection or the branch query fails during a read of
\* a record that exists in the primary store, the read does not raise: it
\* returns success with the primary payload already fetched and provenance
\* main.
C6_ReadFallsBack ==
    \A q \in Slots :
        Done(q) /\ req[q].kind = "GET" /\ req[q].prim = "found" /\ Failed(q) =>
            /\ req[q].status = 200
            /\ req[q].source = "main"
            /\ req[q].out = JSONparse(req[q].row.tree_data)

C6_Witness ==
    \E q \in Slots :
        /\ Done(q) /\ req[q].kind = "GET" /\ req[q].br = "query_failed"
        /\ req[q].status = 200 /\ req[q].source = "main"
        /\ Has(BranchRows(q), req[q].id)
        /\ BranchRows(q)[req[q].id].tree_data # req[q].row.tree_data

\* C7: a read of an id that has no row in the primary store answers 404 and
\* never consults a branch store.
C7_NotFound ==
    \A q \in Slots :
        Done(q) /\ req[q].kind = "GET" /\ req[q].status # 500
                /\ ~Has(primary, req[q].id) =>
            /\ req[q].status = 404
            /\ req[q].br = "none"
            /\ req[q].out = NULL

C7_Witness ==
    \E q \in Slots :
        /\ Done(q) /\ req[q].kind = "GET" /\ req[q].status = 404
        /\ ~Has(primary, req[q].id)
        /\ \E b \in BranchIds : cp[b] = "active"

\* C8: for a record created with a branch whose endpoint is available, a
\* read that follows an update with payload P2 returns P2 with provenance
\* branch while the branch answers, and P2 with provenance main once the
\* branch is unreachable.
C8_ReadAfterUpdate ==
    \A q \in Slots :
        Done(q) /\ req[q].kind = "GET" /\ req[q].status = 200
                /\ req[q].after[1] = "both" =>
            /\ req[q].out = <<"tree", req[q].after[2]>>
            /\ req[q].br = "ok" => req[q].source = "branch"
            /\ Failed(q) => req[q].source = "main"

\* C9: the branch write of an update is an upsert: whenever an update
\* reports both, the branch store holds a row for the record whose payload
\* is the payload just written.
C9_BothMeansBranchHasPayload ==
    \A q \in Slots :
        Done(q) /\ req[q].kind = "PUT" /\ req[q].writtenTo = "both"
                /\ ~req[q].raced =>
            /\ Has(BranchRows(q), req[q].id)
            /\ BranchRows(q)[req[q].id].tree_data = JSONstringify(req[q].treeData)

\* C10: for a record that is Unbranched (no branch id) or Branch-pending
\* (branch id stored, endpoint null) every read and every update touches the
\* primary store only: no branch connection is opened, a read reports
\* provenance main and an update reports tag main.
C10_PrimaryOnly ==
    \A q \in Slots :
        req[q].kind \in {"GET", "PUT"} /\ Selected(q)
            /\ (req[q].row.branch_id = NULL \/ req[q].row.branch_host = NULL) =>
            /\ req[q].br = "none"
            /\ req[q].pc \notin {"put_branch", "get_branch"}
            /\ Done(q) /\ req[q].status = 200 =>
                 /\ req[q].kind = "GET" => req[q].source = "main"
                 /\ req[q].kind = "PUT" => req[q].writtenTo = "main"

C10_Witness ==
    \E q \in Slots :
        /\ Done(q) /\ req[q].kind = "PUT" /\ req[q].status = 200
        /\ req[q].row.branch_id # NULL /\ req[q].row.branch_host = NULL
        /\ req[q].writtenTo = "main" /\ req[q].br = "none"

\* C11: within one update the branch write is started only after the primary
\* write has completed successfully; the two writes of one update are never
\* in flight at the same time.
C11_BranchAfterPrimary ==
    \A q \in Slots :
        req[q].kind = "PUT" =>
            /\ req[q].pc = "put_update" => req[q].br = "none"
            /\ req[q].pc = "put_branch" \/ req[q].br # "none" =>
                  /\ req[q].prim = "written"
                  /\ ~req[q].conn

C11_Witness ==
    \E q \in Slots :
        /\ req[q].kind = "PUT" /\ req[q].pc = "put_branch"
        /\ req[q].prim = "written" /\ req[q].br = "none"
        /\ primary[req[q].id].tree_data = JSONstringify(req[q].treeData)
        /\ primary[req[q].id].tree_data # req[q].row.tree_data

\* C12: an update whose primary write has succeeded eventually returns its
\* response, also when the branch connection or the branch write never
\* completes.
C12_UpdateReturns ==
    \A q \in Slots :
        (req[q].kind = "PUT" /\ req[q].prim = "written") ~> Done(q)

\* a read or an update that has answered for a record whose branch is deleted
Degraded(q) ==
    /\ Done(q) /\ req[q].kind \in {"GET", "PUT"}
    /\ req[q].prim \in {"found", "written"}
    /\ Truthy(req[q].branchHost)
    /\ cp[BranchOfHost(req[q].branchHost)] = "deleted"

\* C13: deleting a branch through the control plane neither deletes nor
\* modifies the owning record in the primary store; afterwards the record is
\* still read (payload from primary, provenance main) and still updated
\* successfully (tag main-only, the primary store holding the payload unless
\* a concurrent update wrote after it).
C13_DeletionKeepsRecord ==
    [][/\ \A q \in Slots :
            req[q].pc = "idle" /\ req'[q].kind = "DELETE" => primary' = primary
       /\ \A q \in Slots :
            Degraded(q)' =>
                /\ req'[q].status = 200
                /\ Has(primary', req'[q].id)
                /\ req'[q].kind = "GET" =>
                      /\ req'[q].source = "main"
                      /\ req'[q].out = JSONparse(req'[q].row.tree_data)
                /\ req'[q].kind = "PUT" =>
                      /\ req'[q].writtenTo = "main-only"
                      /\ ~req'[q].overwritten =>
                            primary'[req'[q].id].tree_data
                                = JSONstringify(req'[q].treeData)]_vars

C13_Witness ==
    \E q \in Slots :
        /\ Degraded(q) /\ req[q].kind = "PUT" /\ req[q].status = 200
        /\ req[q].writtenTo = "main-only"
        /\ primary[req[q].id].tree_data = JSONstringify(req[q].treeData)
        /\ primary[req[q].id].tree_data # req[q].row.tree_data

\* C14: when record creation requests a branch and the control-plane
\* creation call answers a non-success status or raises, the creation still
\* succeeds in degraded mode: the record is inserted in the primary store
\* with null branch id and null branch endpoint, and no branch store write
\* is attempted.
C14_ProvisioningFailedDegrades ==
    \A q \in Slots :
        req[q].kind = "POST" /\ req[q].createBranch
                /\ req[q].create \in {"throw", "notok"} =>
            /\ req[q].branchId = NULL /\ req[q].branchHost = NULL
            /\ req[q].br = "none"
            /\ req[q].pc \notin {"post_branch", "hung"}
            /\ Done(q) => req[q].prim \in {"none", "failed", "written"}
            /\ Done(q) /\ req[q].prim = "written" =>
                  /\ req[q].status = 200
                  /\ Has(primary, req[q].id)
                  /\ primary[req[q].id].branch_id = NULL
                  /\ primary[req[q].id].branch_host = NULL

C14_Witness ==
    \E q \in Slots :
        /\ Done(q) /\ req[q].kind = "POST" /\ req[q].createBranch
        /\ req[q].create = "notok" /\ req[q].status = 200
        /\ primary[req[q].id].branch_id = NULL
        /\ primary[req[q].id].tree_data = JSONstringify(req[q].treeData)

\* C15: when the branch-creation call succeeds but the branch-details call
\* yields no endpoint (a non-success response, or a success response that
\* lists no endpoints), the creation still succeeds (the primary store
\* accepting the row) and stores the record Branch-pending: branch id set,
\* branch endpoint null.
C15_NoEndpointIsPending ==
    \A q \in Slots :
        Done(q) /\ req[q].kind = "POST" /\ req[q].create = "ok"
                /\ ~Truthy(req[q].branchHost)
                /\ req[q].prim \in {"written", "bind_error"} =>
            /\ req[q].status = 200
            /\ Has(primary, req[q].id)
            /\ primary[req[q].id].branch_id = req[q].branchId
            /\ primary[req[q].id].branch_host = NULL

\* C16: every record of the primary store with a non-null branch reference
\* (branch id or branch endpoint) was created by a request during which the
\* control-plane branch-creation call returned success: a row gets its
\* reference from such a request and from nothing else.
C16_BranchRefHasCreation ==
    [][\A id \in RecordIds :
          Has(primary', id)
              /\ (primary'[id].branch_id # NULL \/ primary'[id].branch_host # NULL) =>
          \/ /\ Has(primary, id)
             /\ primary[id].branch_id = primary'[id].branch_id
             /\ primary[id].branch_host = primary'[id].branch_host
          \/ \E q \in Slots :
                /\ req[q].pc = "post_insert" /\ req[q].id = id
                /\ req'[q].prim = "written"
                /\ req[q].create = "ok"
                /\ primary'[id].branch_id = req[q].branchId
                /\ req[q].branchId \in BranchIds
                /\ cp[req[q].branchId] # "absent"]_vars

C16_Witness ==
    \E q \in Slots :
        /\ Done(q) /\ req[q].kind = "POST" /\ req[q].prim = "written"
        /\ req[q].create = "ok" /\ req[q].details = "notok"
        /\ primary[req[q].id].branch_id \in BranchIds
        /\ primary[req[q].id].branch_host = NULL

\* a call of the digest client with both keys configured, as the branches
\* route made it
Called(q) ==
    /\ Done(q) /\ req[q].kind = "DELETE" /\ req[q].call.made
    /\ env.publicKey /\ env.privateKey

\* C17: if the first, unauthenticated response has a status other than the
\* 401 challenge, the digest client returns that response unchanged and
\* issues no second request.
C17_NonChallengeReturned ==
    \A q \in Slots :
        Called(q) /\ req[q].call.net.first \notin {0, 401} =>
            /\ req[q].call.result.error = "none"
            /\ req[q].call.result.response
                  = [seq |-> 1, status |-> req[q].call.net.first]
            /\ req[q].call.result.sent = 1
            /\ req[q].status = IF Ok(req[q].call.net.first) THEN 200
                               ELSE req[q].call.net.first

C17_Witness ==
    \E q \in Slots :
        /\ Called(q) /\ req[q].call.net.first = 404
        /\ req[q].call.result.sent = 1 /\ req[q].status = 404

\* C18: on a 401 challenge the digest client reissues the request exactly
\* once, with the computed Authorization header, and returns the second
\* response whatever its status, a second 401 included; no call issues a
\* third request.
C18_ReissuedOnce ==
    \A q \in Slots :
        Done(q) /\ req[q].kind = "DELETE" /\ req[q].call.made =>
            /\ req[q].call.result.sent <= 2
            /\ Called(q) /\ req[q].call.net.first = 401
                    /\ req[q].call.net.challenge.header =>
                  /\ req[q].call.result.sent = 2
                  /\ req[q].call.result.authorization # NoAuthorization
                  /\ req[q].call.net.second # 0 =>
                        /\ req[q].call.result.error = "none"
                        /\ req[q].call.result.response
                              = [seq |-> 2, status |-> req[q].call.net.second]
                  /\ req[q].call.net.second = 0 =>
                        req[q].call.result.error = "network"

C18_Witness ==
    \E q \in Slots :
        /\ Called(q) /\ req[q].call.net.first = 401
        /\ req[q].call.net.second = 401
        /\ req[q].call.result.sent = 2 /\ req[q].status = 401

\* C19: if the 401 challenge header carries no realm token or no nonce
\* token, the digest client fails that request with an error and does not
\* reissue the request.
C19_MalformedChallengeFails ==
    \A q \in Slots :
        Called(q) /\ req[q].call.net.first = 401
                /\ (req[q].call.net.challenge.realm = NULL
                    \/ req[q].call.net.challenge.nonce = NULL) =>
            /\ req[q].call.result.error # "none"
            /\ req[q].call.result.sent = 1

\* C20: if the public key or the private key is absent from the process
\* configuration, the digest client fails with a configuration error before
\* any network request is issued.
C20_MissingKeysFailFirst ==
    \A q \in Slots :
        ~env.publicKey \/ ~env.privateKey =>
            /\ Done(q) /\ req[q].kind = "DELETE" /\ req[q].call.made =>
                  /\ req[q].call.result.error = "config"
                  /\ req[q].call.result.sent = 0
                  /\ req[q].status = 500
            /\ req[q].kind = "POST" /\ req[q].createBranch /\ env.clusterId
                    /\ req[q].status # 400 =>
                  /\ req[q].create = "throw"
                  /\ req[q].branchId = NULL /\ req[q].branchHost = NULL

C20_Witness ==
    \E q \in Slots :
        /\ env.publicKey /\ ~env.privateKey
        /\ Done(q) /\ req[q].kind = "DELETE" /\ req[q].call.made
        /\ req[q].call.result.sent = 0 /\ req[q].status = 500

\* C21: the response value of the Authorization header equals
\* hash(HA1:nonce:nc:cnonce:qop:HA2) with HA1 = hash(publicKey:realm:privateKey)
\* and HA2 = hash(method:uri), nc always the fixed first value "00000001" and
\* qop taken from the challenge, or "auth" when the challenge has none.
C21_DigestResponse ==
    \A q \in Slots :
        Called(q) /\ req[q].call.result.sent = 2 =>
            LET net == req[q].call.net
                a == req[q].call.result.authorization
                HA1 == <<"md5", <<PublicKey, a.realm, PrivateKey>>>>
                HA2 == <<"md5", <<DeleteMethod, PathOf(req[q].branchId)>>>> IN
            /\ net.challenge.realm # NULL => a.realm = net.challenge.realm
            /\ net.challenge.nonce # NULL => a.nonce = net.challenge.nonce
            /\ a.nc = <<"str", 7>>
            /\ a.cnonce = net.cnonce
            /\ a.qop = IF net.challenge.qop = NULL THEN <<"str", 4>>
                       ELSE net.challenge.qop
            /\ a.response = <<"md5", <<HA1, a.nonce, a.nc, a.cnonce, a.qop, HA2>>>>

C21_Witness ==
    \E q \in Slots :
        /\ Called(q) /\ req[q].call.result.sent = 2
        /\ req[q].call.net.challenge.qop = NULL
        /\ req[q].call.net.challenge.realm = Realm
        /\ req[q].call.net.cnonce = <<"hex", 2>>
        /\ req[q].call.result.authorization.qop = Auth
        /\ req[q].status = 200

\* C30: an update addressed to a record id that has no row in the primary
\* store (the SELECT having answered) returns status 404 and writes nothing:
\* the primary store and every branch store are unchanged, no branch
\* connection is opened and no success tag is reported.
C30_MissingRecordNotFound ==
    [][\A q \in Slots :
          /\ req[q].pc = "idle" /\ req'[q].kind = "PUT"
          /\ req'[q].prim # "none"
          /\ ~Has(primary, req'[q].id)
          => /\ req'[q].pc = "done" /\ req'[q].status = 404
             /\ primary' = primary /\ branch' = branch /\ cp' = cp
             /\ req'[q].br = "none" /\ req'[q].writtenTo = NULL
             /\ ~req'[q].conn]_vars

C30_Witness ==
    \E q \in Slots :
        /\ Done(q) /\ req[q].kind = "PUT" /\ req[q].status = 404
        /\ ~Has(primary, req[q].id) /\ req[q].br = "none"
        /\ req[q].prim = "missing" /\ Truthy(req[q].treeData)
        /\ \E p \in Slots : p # q /\ req[p].pc \notin {"idle", "done"}

\* C27: an update changes only the payload of the record: every step of an
\* update, whether it succeeds, reports main-only or fails, leaves the set of
\* records of the primary store and each record's owner session, name, parent
\* record id, branch id, branch endpoint and branch origin node as they were;
\* a stale branch reference is never cleared.
C27_UpdateChangesPayloadOnly ==
    [][\A q \in Slots :
          req'[q].kind = "PUT" /\ req'[q] # req[q]
          => /\ DOMAIN primary' = DOMAIN primary
             /\ \A id \in DOMAIN primary :
                   [primary'[id] EXCEPT !.tree_data = primary[id].tree_data]
                       = primary[id]]_vars

C27_Witness ==
    \E q \in Slots :
        /\ Degraded(q) /\ req[q].kind = "PUT"
        /\ req[q].status = 200 /\ req[q].writtenTo = "main-only"
        /\ primary[req[q].id].tree_data = JSONstringify(req[q].treeData)
        /\ primary[req[q].id].branch_host = req[q].branchHost
        /\ primary[req[q].id].branch_id = BranchOfHost(req[q].branchHost)
        /\ req[q].row.tree_data # primary[req[q].id].tree_data

\* C28: every connection a timeline handler takes from the primary pool is
\* released before the handler returns, on the success path and on every
\* error path: no completed request holds a connection.
C28_ConnectionsReleased ==
    \A q \in Slots : Done(q) => ~req[q].conn

\* C25: read-your-writes: after an update of a record with payload P has
\* returned success (with any tag) and no other update of the record
\* intervenes, every later read of the record returns payload P, whatever the
\* reachability of the branch during the update and during the read.
C25_ReadYourWrites ==
    \A q \in Slots :
        Done(q) /\ req[q].kind = "GET" /\ req[q].status = 200
                /\ req[q].after # NoUpdate =>
            req[q].out = <<"tree", req[q].after[2]>>

\* C26 (as stated): if two updates of the same branched record, whose row
\* exists in both stores, run concurrently and both report both, then once
\* both have completed the primary store and the branch store hold the same
\* payload for the record.
C26_ConcurrentUpdatesAgree ==
    \A q \in Slots :
        Done(q) /\ req[q].kind = "PUT" /\ req[q].writtenTo = "both"
                /\ req[q].peer[1] = "both" /\ Updating(req[q].id) = {}
                /\ Has(primary, req[q].id) /\ Has(BranchRows(q), req[q].id) =>
            primary[req[q].id].tree_data = BranchRows(q)[req[q].id].tree_data

\* C26 (amended): under the same conditions the branch store holds the
\* payload of the update whose branch write was applied last (the one that
\* returned last) and the primary store holds the payload of the update whose
\* primary write was applied last; these can be different updates.
C26_LastWriterPerStore ==
    \A q \in Slots :
        Done(q) /\ req[q].kind = "PUT" /\ req[q].writtenTo = "both"
                /\ req[q].peer[1] = "both" /\ Updating(req[q].id) = {}
                /\ Has(primary, req[q].id) /\ Has(BranchRows(q), req[q].id) =>
            /\ BranchRows(q)[req[q].id].tree_data = JSONstringify(req[q].treeData)
            /\ primary[req[q].id].tree_data =
                  IF req[q].overwritten
                  THEN <<"json", req[q].peer[2]>>
                  ELSE JSONstringify(req[q].treeData)

C26_Witness ==
    \E q \in Slots :
        /\ Done(q) /\ req[q].kind = "PUT" /\ req[q].writtenTo = "both"
        /\ req[q].peer[1] = "both" /\ Updating(req[q].id) = {}
        /\ Has(primary, req[q].id) /\ Has(BranchRows(q), req[q].id)
        /\ req[q].overwritten
        /\ req[q].peer[2] # req[q].treeData[2]
        /\ primary[req[q].id].tree_data # BranchRows(q)[req[q].id].tree_data

\* ====================================================================
\* The tree editor: a tree is on screen, a node is selected and alternative
\* children arrive, the tree is rebuilt with replaceSubtreeAtNode
Editor_select ==
    /\ editor.pc = "loaded"
    /\ \E nodeId \in LookupIds, newChildren \in Alternatives :
         editor' = [editor EXCEPT !.pc = "selected", !.nodeId = nodeId,
                                  !.newChildren = newChildren]
    /\ UNCHANGED <<storeVars, limiter, history>>

Editor_replace ==
    /\ editor.pc = "selected"
    /\ editor' = [editor EXCEPT
                    !.pc = "replaced",
                    !.result = replaceSubtreeAtNode(editor.tree, editor.nodeId,
                                                    editor.newChildren)]
    /\ UNCHANGED <<storeVars, limiter, history>>

\* the timelines store at rest: configured, empty, no request in flight
StoreAtRest ==
    /\ primary = EmptyTable
    /\ branch = [b \in BranchIds |-> EmptyTable]
    /\ cp = [b \in BranchIds |-> "absent"]
    /\ env = [clusterId |-> TRUE, publicKey |-> TRUE, privateKey |-> TRUE]
    /\ req = [q \in Slots |-> Idle]
    /\ last = [r \in RecordIds |-> NoUpdate]

EditorInit ==
    /\ StoreAtRest
    /\ limiter = LimiterIdle
    /\ history = HistoryIdle
    /\ editor \in {[EditorIdle EXCEPT !.pc = "loaded", !.tree = t] : t \in LifeTrees}

EditorNext == Editor_select \/ Editor_replace

EditorSpec == EditorInit /\ [][EditorNext]_vars

\* ====================================================================
\* The generate route: time passes, requests arrive
Limiter_tick ==
    /\ limiter.now < MaxTicks * TickMs
    /\ limiter' = [limiter EXCEPT !.now = @ + TickMs]
    /\ UNCHANGED <<storeVars, editor, history>>

\* the number of requests of a client that reached the AI call at one of the
\* times ts
RECURSIVE CalledIn(_, _)
CalledIn(c, ts) ==
    IF ts = {} THEN 0
    ELSE LET u == CHOOSE u \in ts : TRUE IN
         limiter.called[c][u] + CalledIn(c, ts \ {u})

\* POST /api/generate: 429 when the limiter refuses, 400 without a decision,
\* otherwise the AI call is made
Generate_POST ==
    /\ \E clientIP \in Clients, decision \in BOOLEAN, sweep \in BOOLEAN :
         LET rateLimitResult ==
                 rateLimit(limiter.store, Identifier(clientIP), RATE_LIMIT_CONFIG,
                           limiter.now, sweep)
             l == [limiter EXCEPT !.store = rateLimitResult.store,
                                  !.client = clientIP, !.ai = FALSE] IN
         IF ~rateLimitResult.allowed THEN limiter' = [l EXCEPT !.status = 429]
         ELSE IF ~decision THEN limiter' = [l EXCEPT !.status = 400]
         ELSE /\ CalledIn(clientIP, Times) < MaxCalls
              /\ limiter' = [l EXCEPT !.status = 200, !.ai = TRUE,
                                       !.called[clientIP][limiter.now] = @ + 1]
    /\ UNCHANGED <<storeVars, editor, history>>

LimiterInit ==
    /\ StoreAtRest
    /\ editor = EditorIdle
    /\ history = HistoryIdle
    /\ limiter = LimiterIdle

LimiterNext == Limiter_tick \/ Generate_POST

LimiterSpec == LimiterInit /\ [][LimiterNext]_vars

\* ====================================================================
\* The history route: saves of a decision, deletions of an entry
Save(q, r) == history' = [history EXCEPT !.saves[q] = r]
SaveDone(q, r, status) ==
    history' = [history EXCEPT !.saves[q] = [r EXCEPT !.pc = "done", !.status = status]]

\* POST /api/history up to the SELECT: 400 without session id, decision or
\* treeData; LIMIT 1 hands over any one of the matching rows
History_select(q) ==
    /\ history.saves[q].pc = "idle"
    /\ \A p \in Slots : p < q => history.saves[p].pc # "idle"
    /\ \E sessionId \in Sessions \cup {NULL}, decision \in Decisions \cup {NULL},
          treeData \in Trees \cup {NULL}, poolOk \in BOOLEAN, ok \in BOOLEAN :
         LET r == [NoSave EXCEPT !.session = sessionId, !.decision = decision,
                                 !.treeData = treeData]
             existing == Existing(history.table, sessionId, decision) IN
         IF ~Truthy(sessionId) THEN SaveDone(q, r, 400)
         ELSE IF ~Truthy(decision) \/ ~Truthy(treeData) THEN SaveDone(q, r, 400)
         ELSE IF ~poolOk THEN SaveDone(q, r, 500)
         ELSE IF ~ok THEN SaveDone(q, [r EXCEPT !.conn = TRUE], 500)
         ELSE IF existing # {}
         THEN \E i \in existing :
                 Save(q, [r EXCEPT !.pc = "update", !.conn = TRUE, !.existing = i])
         ELSE Save(q, [r EXCEPT !.pc = "insert", !.conn = TRUE])
    /\ UNCHANGED <<storeVars, editor, limiter>>

\* UPDATE decision_history SET tree_data = ?, created_at = NOW() WHERE id = ?
History_update(q) ==
    /\ history.saves[q].pc = "update"
    /\ \E ok \in BOOLEAN :
         LET r == history.saves[q] IN
         IF ~ok THEN SaveDone(q, r, 500)
         ELSE history' =
                [table |-> IF Has(history.table, r.existing)
                           THEN [history.table EXCEPT ![r.existing].tree_data =
                                                          JSONstringify(r.treeData)]
                           ELSE history.table,
                 saves |-> [history.saves EXCEPT ![q] =
                              [r EXCEPT !.pc = "done", !.status = 200, !.conn = FALSE,
                                        !.id = r.existing, !.updated = TRUE]]]
    /\ UNCHANGED <<storeVars, editor, limiter>>

\* INSERT INTO decision_history (id, session_id, decision, tree_data) with
\* id = crypto.randomUUID().substring(0, 16); the id is the primary key
History_insert(q) ==
    /\ history.saves[q].pc = "insert"
    /\ \E id \in HistoryIds, ok \in BOOLEAN :
         LET r == [history.saves[q] EXCEPT !.id = id] IN
         IF ~ok \/ Has(history.table, id) THEN SaveDone(q, r, 500)
         ELSE history' =
                [table |-> (id :> HistoryRow(r.session, r.decision, r.treeData))
                               @@ history.table,
                 saves |-> [history.saves EXCEPT ![q] =
                              [r EXCEPT !.pc = "done", !.status = 200, !.conn = FALSE]]]
    /\ UNCHANGED <<storeVars, editor, limiter>>

\* DELETE /api/history?id=...: DELETE FROM decision_history WHERE id = ? AND
\* session_id = ?
History_DELETE ==
    /\ \E sessionId \in Sessions, historyId \in HistoryIds :
         /\ Has(history.table, historyId)
         /\ history.table[historyId].session_id = sessionId
         /\ history' = [history EXCEPT
                          !.table = [i \in DOMAIN history.table \ {historyId} |->
                                        history.table[i]]]
    /\ UNCHANGED <<storeVars, editor, limiter>>

\* the response of a save is delivered
History_retire(q) ==
    /\ history.saves[q].pc = "done"
    /\ Save(q, NoSave)
    /\ UNCHANGED <<storeVars, editor, limiter>>

HistoryInit ==
    /\ StoreAtRest
    /\ editor = EditorIdle
    /\ limiter = LimiterIdle
    /\ history = HistoryIdle

HistoryNext ==
    \/ \E q \in Slots :
          \/ History_select(q) \/ History_update(q) \/ History_insert(q)
          \/ History_retire(q)
    \/ History_DELETE

HistorySpec == HistoryInit /\ [][HistoryNext]_vars

\* the ids carried by the nodes of a tree
RECURSIVE IdsOf(_)
IdsOf(tree) ==
    {tree.id} \cup UNION {IdsOf(tree.children[i]) : i \in DOMAIN tree.children}

Replaced == editor.pc = "replaced"

\* C22: replaceSubtree applied with an id that matches no node of the tree
\* returns a tree deep-equal to the input, for every tree and every
\* newChildren.
C22_NoMatchIsNoOp ==
    Replaced /\ editor.nodeId \notin IdsOf(editor.tree) =>
        editor.result = editor.tree

C22_Witness ==
    /\ Replaced /\ editor.nodeId \notin IdsOf(editor.tree)
    /\ ~findNodeById(editor.tree, editor.nodeId).found
    /\ editor.newChildren # << >>
    /\ Len(editor.tree.children) = 2
    /\ editor.tree.children[1].hasChildren
    /\ editor.tree.children[1].children = << >>
    /\ ~editor.tree.children[2].hasChildren

\* the path (child positions from the root) of the first node of that id in
\* document order, for an id the tree carries
RECURSIVE FirstPath(_, _)
FirstPath(tree, id) ==
    IF tree.id = id THEN << >>
    ELSE LET hits == {i \in DOMAIN tree.children : id \in IdsOf(tree.children[i])}
             first == CHOOSE i \in hits : \A j \in hits : i <= j IN
         <<first>> \o FirstPath(tree.children[first], id)

\* the tree without the children of the node at that path
RECURSIVE Pruned(_, _)
Pruned(tree, path) ==
    IF path = << >> THEN [tree EXCEPT !.hasChildren = TRUE, !.children = << >>]
    ELSE [tree EXCEPT !.children =
              [@ EXCEPT ![Head(path)] = Pruned(@, Tail(path))]]

\* C23: replaceSubtree changes only the children of the first node in
\* document order that matches the id: that node's own fields and every node
\* that is neither that node nor one of its former descendants are identical
\* in the result, also when several nodes of the tree carry the same id.
C23_OnlyFirstMatchChanged ==
    Replaced /\ editor.nodeId \in IdsOf(editor.tree) =>
        LET path == FirstPath(editor.tree, editor.nodeId) IN
        Pruned(editor.result, path) = Pruned(editor.tree, path)

\* the times of the window that starts at t
Window(t) == {u \in Times : t <= u /\ u < t + 60000}

\* C24: the generate endpoint admits at most 5 requests per client IP within
\* any 60-second window: a further request from the same IP inside the
\* window is rejected with status 429 and does not reach the AI call.
C24_FivePerWindow ==
    \A c \in Clients, t \in Times : CalledIn(c, Window(t)) <= 5

\* C29: after any sequence of history saves, including saves that run
\* concurrently, the decision_history table holds at most one row per
\* (session id, decision) pair.
C29_OneRowPerDecision ==
    \A s \in Sessions, d \in Decisions :
        Cardinality(Existing(history.table, s, d)) <= 1

====
